---- MODULE Spec2Model ----
(***************************************************************************)
(* Model of the Sonos discovery manager                                    *)
(* (homeassistant/components/sonos/__init__.py): SonosData, _create_soco   *)
(* and SonosDiscoveryManager.  Discovery events create asyncio tasks that  *)
(* serialise on discovery_lock; device creation runs as executor jobs that *)
(* interleave with the event loop and with the manual-hosts pass, which    *)
(* runs in the executor without the lock.  An executor job is one step: it *)
(* reads and writes discovered only where it stores the speaker, so the    *)
(* window that matters is the one between the check that started the job   *)
(* and the job itself.  The alarms and favorites coordinators and the      *)
(* speaker's own set-up appear as a place where the job may raise.         *)
(***************************************************************************)
EXTENDS Integers, Sequences, FiniteSets, TLC

\* ---------------------------------------------------------------- bounds
\* Discovery tasks that may exist at once (created, not yet finished).
MaxTasks == 2
\* The same, while a manual-hosts pass may be running beside them.
MaxHostTasks == 1
\* The same, while every arriving event is noted.
MaxObservedTasks == 1
\* Largest boot sequence number a discovery event carries.
MaxBoot == 2
\* The same, while a manual-hosts pass may be running beside the tasks.
MaxHostBoot == 1

\* ------------------------------------------------------------ environment
\* One device on the network, and two identifiers an event may name it by:
\* the one the device reports, and one it does not (a stale or wrongly
\* derived identifier).
UIDs == {"RINCON_1", "RINCON_2"}
IPs == {"10.0.0.1"}
Models == {"Sonos One"}
\* CONF_HOSTS when hosts are configured.
ConfiguredHosts == <<"host_a", "host_b">>

\* boot_seqnum when the event carries none (info.get returns None).
NoBoot == -1
\* X-RINCON-BOOTSEQ as received: absent (None), or the header's text.
NoHeader == "None"
Digits == <<"0", "1", "2", "3", "4", "5", "6", "7", "8", "9">>
BootInputs == {NoHeader} \cup {Digits[n + 1] : n \in 0 .. MaxBoot}
HostBootInputs == {NoHeader} \cup {Digits[n + 1] : n \in 0 .. MaxHostBoot}

DISCOVERY_IGNORED_MODELS == {"Sonos Boost"}

\* soco.uid: the identifier the device at an address reports about itself.
DeviceUid(ip) == "RINCON_1"
\* How an executor job that adds a player ends: _create_soco fails (OSError,
\* SoCoException), the device is not visible, get_speaker_info raises, the
\* set-up after the speaker is stored raises, or all of it succeeds.
JobOutcomes == {"soco_error", "hidden", "info_error", "setup_error", "ok"}

VARIABLES
    hosts,            \* SonosDiscoveryManager.hosts
    discovered,       \* SonosData.discovered: uid -> speaker
    hosts_heartbeat,  \* SonosData.hosts_heartbeat: "None" or "handle"
    discovery_known,  \* SonosData.discovery_known
    boot_counts,      \* SonosData.boot_counts: uid -> int
    discovery_lock,   \* asyncio.Lock: TRUE when held
    tasks,            \* tasks of _async_create_discovered_player, oldest first
    manual,           \* the _manual_hosts executor job
    timer_armed,      \* a call_later(DISCOVERY_INTERVAL, _manual_hosts) is pending
    stop_listener,    \* listen_once(EVENT_HOMEASSISTANT_STOP, _stop_manual_heartbeat)
    ssdp_registered,  \* ssdp.async_register_callback done
    setup_done,       \* setup_platforms_and_discovery has run
    event_created,    \* history: identifiers whose event task has stored a speaker
    reboot_seen,      \* history: boot numbers of Watched classified as a reboot
    done_max,         \* history: largest boot number of a finished event for Watched
    last_event        \* history: how the last observed discovery event was met

vars == << hosts, discovered, hosts_heartbeat, discovery_known,
           boot_counts, discovery_lock, tasks, manual, timer_armed, stop_listener,
           ssdp_registered, setup_done, event_created, reboot_seen, done_max,
           last_event >>

dataVars == << discovered, discovery_known, boot_counts >>
taskVars == << discovery_lock, tasks >>
manualVars == << hosts, hosts_heartbeat, manual, timer_armed, stop_listener,
                 ssdp_registered, setup_done >>
histVars == << event_created, reboot_seen, done_max, last_event >>

\* The reboot history follows the identifier the device reports: no other
\* identifier gets into discovered, so no other one reaches the reboot branch.
Watched == "RINCON_1"

\* ------------------------------------------------------------- helpers
Max(a, b) == IF a >= b THEN a ELSE b

\* dict[key] = value
Put(d, k, v) == [x \in DOMAIN d \cup {k} |-> IF x = k THEN v ELSE d[x]]

\* dict.get(key, NoBoot)
Get(d, k) == IF k \in DOMAIN d THEN d[k] ELSE NoBoot

RemoveAt(s, i) == [j \in 1 .. (Len(s) - 1) |-> IF j < i THEN s[j] ELSE s[j + 1]]

IdleManual ==
    [pc |-> "idle", idx |-> 0, ip |-> "none", sent |-> "none", addr |-> "none",
     made |-> << >>]

\* _manual_hosts(now) entered: before the first host of the for loop.  addr is
\* the last resolved address, made the addresses this pass stored a speaker for.
StartManual ==
    [pc |-> "host", idx |-> 1, ip |-> "none", sent |-> "none", addr |-> "none",
     made |-> << >>]

\* A task as asyncio.create_task leaves it: not started, waiting for the lock.
NewTask(uid, ip, boot) ==
    [uid |-> uid, ip |-> ip, boot |-> boot, pc |-> "wait",
     known |-> FALSE, stored |-> NoBoot, job |-> "none", sent |-> "none",
     created |-> FALSE, failed |-> FALSE, again |-> FALSE, dup |-> FALSE,
     tracked |-> FALSE]

\* ------------------------------------------------------------------ Init
InitData ==
    /\ discovered = << >>
    /\ hosts_heartbeat = "None"
    /\ discovery_known = {}
    /\ boot_counts = << >>
    /\ discovery_lock = FALSE
    /\ tasks = << >>
    /\ manual = IdleManual
    /\ timer_armed = FALSE
    /\ stop_listener = "unregistered"
    /\ ssdp_registered = FALSE
    /\ setup_done = FALSE
    /\ event_created = {}
    /\ reboot_seen = {}
    /\ done_max = NoBoot
    /\ last_event = "none"

\* No hosts configured: discovery comes from SSDP.
Init == hosts = << >> /\ InitData

\* Hosts configured: manual polling; events still reach async_discovered_player.
InitHosts == hosts = ConfiguredHosts /\ InitData

\* ------------------------------------------------- discovery events
\* `if boot_seqnum:` on what the event carries: None is false, any header
\* text (also "0") is true.
HeaderGiven(bootin) == bootin # NoHeader

\* int(boot_seqnum)
ParseInt(bootin) == CHOOSE n \in 0 .. 9 : Digits[n + 1] = bootin

\* boot_counts.setdefault(uid, boot_seqnum), overwriting instead (mutant).
SetDefaultOverwrites(bc, uid, boot) == Put(bc, uid, boot)

\* The handler stores no boot count (mutant).
SetDefaultSkipped(bc, uid, boot) == bc

\* boot_counts.setdefault(uid, boot_seqnum)
SetDefault(bc, uid, boot) == IF uid \in DOMAIN bc THEN bc ELSE Put(bc, uid, boot)

\* No model is ignored (mutant).
IsIgnoredNever(model) == FALSE

\* model in DISCOVERY_IGNORED_MODELS
IsIgnored(model) == model \in DISCOVERY_IGNORED_MODELS

\* async_discovered_player(source, info, discovered_ip, uid, boot_seqnum, model);
\* track marks the task it creates as the one whose progress is followed.
HandleDiscovered(uid, ip, bootin, model, limit, track) ==
    IF IsIgnored(model)
    THEN /\ UNCHANGED dataVars
         /\ UNCHANGED taskVars
         /\ UNCHANGED manualVars
         /\ UNCHANGED << event_created, reboot_seen, done_max >>
    ELSE LET boot == IF HeaderGiven(bootin) THEN ParseInt(bootin) ELSE NoBoot
         IN /\ Len(tasks) < limit
            /\ boot_counts' = IF HeaderGiven(bootin)
                              THEN SetDefault(boot_counts, uid, boot)
                              ELSE boot_counts
            /\ discovery_known' = discovery_known \cup {uid}
            /\ tasks' = Append(tasks, [NewTask(uid, ip, boot) EXCEPT !.tracked = track])
            /\ UNCHANGED << discovered, discovery_lock >>
            /\ UNCHANGED manualVars
            /\ UNCHANGED << event_created, reboot_seen, done_max >>

\* The events async_discovered_player may be handed.  An event of an ignored
\* model is dropped before anything else of it is read, so one such event
\* stands for all of them.
DiscoveryEvents ==
    [uid : UIDs, ip : IPs, boot : HostBootInputs, model : Models]
        \cup {[uid |-> "RINCON_1", ip |-> "10.0.0.1", boot |-> NoHeader,
                model |-> "Sonos Boost"]}

\* A discovery event handed to async_discovered_player (zeroconf, or any caller).
AsyncDiscoveredPlayer ==
    /\ \E e \in DiscoveryEvents :
          HandleDiscovered(e.uid, e.ip, e.boot, e.model, MaxHostTasks, FALSE)
    /\ UNCHANGED last_event

\* ssdp.ATTR_UPNP_UDN as received: the identifier, with or without "uuid:".
SsdpUdns == {<<"uuid:", u>> : u \in UIDs} \cup {<<u>> : u \in UIDs}
\* ssdp.ATTR_SSDP_LOCATION as received.
SsdpLocations == {[scheme |-> "http", hostname |-> ip, port |-> 1400] : ip \in IPs}

\* uid[5:] when uid.startswith("uuid:")
StripUuid(udn) == IF udn[1] = "uuid:" THEN Tail(udn)[1] ELSE udn[1]
\* urlparse(location).hostname
Hostname(location) == location.hostname

\* The SSDP info dicts the callback may be handed, with one of an ignored model.
SsdpInfos ==
    [udn : SsdpUdns, location : SsdpLocations, bootseq : BootInputs, modelName : Models]
        \cup {[udn |-> <<"uuid:", "RINCON_1">>,
                location |-> [scheme |-> "http", hostname |-> "10.0.0.1", port |-> 1400],
                bootseq |-> NoHeader, modelName |-> "Sonos Boost"]}

\* _async_ssdp_discovered_player(info)
AsyncSsdpDiscoveredPlayer ==
    /\ ssdp_registered
    /\ \E info \in SsdpInfos :
          HandleDiscovered(StripUuid(info.udn), Hostname(info.location),
                           info.bootseq, info.modelName, MaxTasks, FALSE)
    /\ UNCHANGED last_event

\* The same callback, with the event noted: whether its model is one of
\* DISCOVERY_IGNORED_MODELS.
ObservedSsdpDiscoveredPlayer ==
    /\ ssdp_registered
    /\ \E info \in SsdpInfos :
          /\ HandleDiscovered(StripUuid(info.udn), Hostname(info.location),
                              info.bootseq, info.modelName, MaxObservedTasks, FALSE)
          /\ last_event' = IF info.modelName \in DISCOVERY_IGNORED_MODELS
                           THEN "ignored" ELSE "handled"

\* The same callback, where the task of one event at a time is followed to
\* its end.
TrackedSsdpDiscoveredPlayer ==
    /\ ssdp_registered
    /\ \E info \in SsdpInfos, track \in BOOLEAN :
          /\ track => \A i \in DOMAIN tasks : ~tasks[i].tracked
          /\ HandleDiscovered(StripUuid(info.udn), Hostname(info.location),
                              info.bootseq, info.modelName, MaxTasks, track)
    /\ UNCHANGED last_event

\* ------------------------------------- _async_create_discovered_player
\* The lock is taken without looking at it (mutant).
CanAcquireAlways == TRUE

\* async with self.discovery_lock: only when nobody holds it
CanAcquire == ~discovery_lock

\* The waiting tasks take the lock in the order they were created.
FirstWaiting(i) ==
    /\ tasks[i].pc = "wait"
    /\ \A j \in 1 .. (i - 1) : tasks[j].pc # "wait"

\* The comparison accepts an equal boot number (mutant).
IsRebootOrEqual(boot, stored) == boot # NoBoot /\ boot # 0 /\ boot >= stored

\* boot_seqnum and boot_seqnum > self.data.boot_counts[uid]
IsReboot(boot, stored) == boot # NoBoot /\ boot # 0 /\ boot > stored

\* The new boot number is not stored (mutant).
RecordBootSkipped(bc, uid, boot) == bc

\* self.data.boot_counts[uid] = boot_seqnum
RecordBoot(bc, uid, boot) == Put(bc, uid, boot)

\* The task takes the lock and runs to its first await (or to the end).
Acquire(i) ==
    /\ FirstWaiting(i)
    /\ CanAcquire
    /\ discovery_lock' = TRUE
    /\ LET t == tasks[i]
           known == t.uid \in DOMAIN discovered
           stored == Get(boot_counts, t.uid)
           at == [t EXCEPT !.known = known, !.stored = stored]
       IN IF ~known
          THEN /\ tasks' = [tasks EXCEPT ![i] =
                     [at EXCEPT !.pc = "discovered_ip", !.job = "discovered_ip"]]
               /\ UNCHANGED << boot_counts, reboot_seen >>
          ELSE IF t.boot # NoBoot /\ t.boot # 0 /\ t.uid \notin DOMAIN boot_counts
          THEN \* boot_counts[uid] raises KeyError; async with releases on the way out
               /\ tasks' = [tasks EXCEPT ![i] =
                     [at EXCEPT !.pc = "exit", !.job = "KeyError", !.failed = TRUE]]
               /\ UNCHANGED << boot_counts, reboot_seen >>
          ELSE IF IsReboot(t.boot, boot_counts[t.uid])
          THEN /\ boot_counts' = RecordBoot(boot_counts, t.uid, t.boot)
               /\ tasks' = [tasks EXCEPT ![i] =
                     [at EXCEPT !.pc = "reboot_soco", !.job = "create_soco",
                                !.dup = (t.uid = Watched /\ t.boot \in reboot_seen)]]
               /\ reboot_seen' = IF t.uid = Watched
                                 THEN reboot_seen \cup {t.boot}
                                 ELSE reboot_seen
          ELSE /\ tasks' = [tasks EXCEPT ![i] =
                     [at EXCEPT !.pc = "exit", !.sent = "SEEN"]]
               /\ UNCHANGED << boot_counts, reboot_seen >>
    /\ UNCHANGED << discovered, discovery_known >>
    /\ UNCHANGED manualVars
    /\ UNCHANGED << event_created, done_max, last_event >>

\* _create_soco(ip_address, source): the handle, or None after the warning.
CreateSoco(o) == o # "soco_error"

\* soco.is_visible
IsVisible(o) == o # "hidden"

\* _discovered_player stores the speaker as soon as get_speaker_info and the
\* constructor are through, before the coordinators and speaker.setup().
Stores(o) == o \in {"setup_error", "ok"}

\* An OSError or SoCoException was caught and logged on the way.
Raised(o) == o \in {"soco_error", "info_error", "setup_error"}

\* self.data.discovered[soco.uid] = speaker: the key is the identifier the
\* device handle reports.
SpeakerKey(uid, ip) == DeviceUid(ip)

\* SonosSpeaker(self.hass, soco, speaker_info); speaker.soco.ip_address.
\* reachable and visible note what the handle answered when it was made.
NewSpeaker(ip, o) == [ip |-> ip, reachable |-> CreateSoco(o), visible |-> IsVisible(o)]

\* soco.is_visible is not consulted (mutant).
AddedInvisible(o) == CreateSoco(o) /\ (Stores(o) \/ ~IsVisible(o))

\* `if soco and soco.is_visible: self._discovered_player(soco)` gets as far
\* as storing a speaker.
Added(o) == CreateSoco(o) /\ IsVisible(o) /\ Stores(o)

\* _discovered_ip(ip_address), with _discovered_player(soco) inside
DiscoveredIp(uid, ip, o) ==
    IF Added(o)
    THEN Put(discovered, SpeakerKey(uid, ip), NewSpeaker(ip, o))
    ELSE discovered

\* The executor job of the creation branch.
TaskDiscoveredIp(i) ==
    /\ tasks[i].pc = "discovered_ip"
    /\ LET t == tasks[i]
       IN \E o \in JobOutcomes :
             /\ discovered' = DiscoveredIp(t.uid, t.ip, o)
             /\ tasks' = [tasks EXCEPT ![i] =
                   [t EXCEPT !.pc = "exit",
                             !.created = Added(o),
                             !.failed = Raised(o),
                             !.again = (Added(o) /\ t.uid \in event_created)]]
             /\ event_created' = IF Added(o)
                                 THEN event_created \cup {t.uid}
                                 ELSE event_created
    /\ UNCHANGED << discovery_known, boot_counts, discovery_lock >>
    /\ UNCHANGED manualVars
    /\ UNCHANGED << reboot_seen, done_max, last_event >>

\* The reboot branch: _create_soco in the executor, then the REBOOTED signal.
TaskRebootSoco(i) ==
    /\ tasks[i].pc = "reboot_soco"
    /\ \E o \in {"soco_error", "ok"} :
          tasks' = [tasks EXCEPT ![i] =
              IF CreateSoco(o)
              THEN [@ EXCEPT !.pc = "exit", !.sent = "REBOOTED"]
              ELSE [@ EXCEPT !.pc = "exit", !.failed = TRUE]]
    /\ UNCHANGED << dataVars, discovery_lock >>
    /\ UNCHANGED manualVars
    /\ UNCHANGED histVars

\* The lock stays held when the body ended in a failure (mutant).
HeldAfterFailure(t) == t.failed

\* __aexit__ of the lock: released however the body ended.
HeldAfterExit(t) == FALSE

\* Leaving `async with`: the lock is released and the task is finished.
Release(i) ==
    /\ tasks[i].pc = "exit"
    /\ discovery_lock' = HeldAfterExit(tasks[i])
    /\ done_max' = IF tasks[i].uid = Watched
                    THEN Max(done_max, tasks[i].boot)
                    ELSE done_max
    /\ tasks' = RemoveAt(tasks, i)
    /\ UNCHANGED dataVars
    /\ UNCHANGED manualVars
    /\ UNCHANGED << event_created, reboot_seen, last_event >>

\* ------------------------------------------------------ _manual_hosts
\* socket.gethostbyname(host): an address, or socket.gaierror.
Resolutions == IPs \cup {"gaierror"}

\* next(uid for uid, speaker in discovered.items()
\*      if speaker.soco.ip_address == ip_addr), or "none"
KnownUid(ip) ==
    LET hits == {u \in DOMAIN discovered : discovered[u].ip = ip}
    IN IF hits = {} THEN "none" ELSE CHOOSE u \in hits : TRUE

\* The pass moves on to the next host of the for loop.
NextHost(sent, addr, made) ==
    [pc |-> "host", idx |-> manual.idx + 1, ip |-> "none", sent |-> sent,
     addr |-> addr, made |-> made]

\* setup_platforms_and_discovery
SetupPlatformsAndDiscovery ==
    /\ ~setup_done
    /\ setup_done' = TRUE
    /\ IF hosts # << >>
       THEN /\ stop_listener' = "registered"
            /\ manual' = StartManual
            /\ UNCHANGED ssdp_registered
       ELSE /\ ssdp_registered' = TRUE
            /\ UNCHANGED << stop_listener, manual >>
    /\ UNCHANGED << hosts, hosts_heartbeat, timer_armed >>
    /\ UNCHANGED dataVars
    /\ UNCHANGED taskVars
    /\ UNCHANGED histVars

\* One host of the for loop, up to the branch on known_uid.
ManualHost ==
    /\ manual.pc = "host"
    /\ manual.idx <= Len(hosts)
    /\ \E res \in Resolutions :
          manual' = IF res = "gaierror"
                    THEN IdleManual  \* the exception ends the job
                    ELSE IF KnownUid(res) # "none"
                    THEN \* dispatcher_send(SONOS_SEEN-uid)
                         NextHost(KnownUid(res), res, manual.made)
                    ELSE [pc |-> "create_soco", idx |-> manual.idx, ip |-> res,
                          sent |-> "none", addr |-> res, made |-> manual.made]
    /\ UNCHANGED << hosts, hosts_heartbeat, timer_armed, stop_listener,
                    ssdp_registered, setup_done >>
    /\ UNCHANGED dataVars
    /\ UNCHANGED taskVars
    /\ UNCHANGED histVars

\* The else branch of the host: _create_soco(ip_addr, CONFIGURED),
\* soco.is_visible, _discovered_player(soco).
ManualCreateSoco ==
    /\ manual.pc = "create_soco"
    /\ \E o \in JobOutcomes :
          /\ discovered' = DiscoveredIp(DeviceUid(manual.ip), manual.ip, o)
          /\ manual' = NextHost("none", manual.addr,
                                IF Added(o) THEN Append(manual.made, manual.ip)
                                ELSE manual.made)
    /\ UNCHANGED << hosts, hosts_heartbeat, timer_armed, stop_listener,
                    ssdp_registered, setup_done >>
    /\ UNCHANGED << discovery_known, boot_counts >>
    /\ UNCHANGED taskVars
    /\ UNCHANGED histVars

\* After the loop: hosts_heartbeat = call_later(DISCOVERY_INTERVAL, _manual_hosts)
ManualSchedule ==
    /\ manual.pc = "host"
    /\ manual.idx > Len(hosts)
    /\ hosts_heartbeat' = "handle"
    /\ timer_armed' = TRUE
    /\ manual' = IdleManual
    /\ UNCHANGED << hosts, stop_listener, ssdp_registered, setup_done >>
    /\ UNCHANGED dataVars
    /\ UNCHANGED taskVars
    /\ UNCHANGED histVars

\* The call_later timer fires: _manual_hosts(now) starts in the executor.
\* hosts_heartbeat keeps the handle that has fired.
TimerFires ==
    /\ timer_armed
    /\ timer_armed' = FALSE
    /\ manual' = StartManual
    /\ UNCHANGED << hosts, hosts_heartbeat, stop_listener, ssdp_registered, setup_done >>
    /\ UNCHANGED dataVars
    /\ UNCHANGED taskVars
    /\ UNCHANGED histVars

\* _stop_manual_heartbeat(event), once, on EVENT_HOMEASSISTANT_STOP
StopManualHeartbeat ==
    /\ stop_listener = "registered"
    /\ stop_listener' = "fired"
    /\ IF hosts_heartbeat # "None"
       THEN /\ timer_armed' = FALSE  \* the handle's cancel()
            /\ hosts_heartbeat' = "None"
       ELSE UNCHANGED << timer_armed, hosts_heartbeat >>
    /\ UNCHANGED << hosts, manual, ssdp_registered, setup_done >>
    /\ UNCHANGED dataVars
    /\ UNCHANGED taskVars
    /\ UNCHANGED histVars

\* ------------------------------------------------------------------ Next
\* A step of one of the discovery tasks.
TaskStep ==
    \/ \E i \in DOMAIN tasks : Acquire(i)
    \/ \E i \in DOMAIN tasks : TaskDiscoveredIp(i)
    \/ \E i \in DOMAIN tasks : TaskRebootSoco(i)
    \/ \E i \in DOMAIN tasks : Release(i)

\* Without configured hosts.
Next ==
    \/ SetupPlatformsAndDiscovery
    \/ AsyncSsdpDiscoveredPlayer
    \/ TaskStep

Spec == Init /\ [][Next]_vars

\* With configured hosts.
NextHosts ==
    \/ SetupPlatformsAndDiscovery
    \/ AsyncDiscoveredPlayer
    \/ TaskStep
    \/ ManualHost
    \/ ManualCreateSoco
    \/ ManualSchedule
    \/ TimerFires
    \/ StopManualHeartbeat

SpecHosts == InitHosts /\ [][NextHosts]_vars

\* Without configured hosts, every event noted.
NextObserved ==
    \/ SetupPlatformsAndDiscovery
    \/ ObservedSsdpDiscoveredPlayer
    \/ TaskStep

SpecObserved == Init /\ [][NextObserved]_vars

\* Without configured hosts, one task at a time followed.  The event loop
\* runs every task that can run and an executor job ends, so a task that can
\* take a step takes it.
NextTracked ==
    \/ SetupPlatformsAndDiscovery
    \/ TrackedSsdpDiscoveredPlayer
    \/ TaskStep

SpecTracked == Init /\ [][NextTracked]_vars /\ WF_vars(TaskStep)

\* ---------------------------------------------------------------- claims
\* The tasks that have finished their body and still hold the lock: what
\* they found when they took the lock and what they did is in their fields.
Exited == {i \in DOMAIN tasks : tasks[i].pc = "exit"}

\* The tasks inside `async with self.discovery_lock`.
InLock == {i \in DOMAIN tasks : tasks[i].pc # "wait"}

\* C1: for one identifier, the discovery events construct and store a
\* speaker at most once: no event task stores a speaker after an earlier
\* event task for the same identifier has stored one.
C1_ConstructedOncePerIdentifier ==
    \A i \in DOMAIN tasks : ~tasks[i].again

\* C2: a handled event has exactly one of three outcomes, decided by the
\* state when its task took the lock: a creation attempt (the _discovered_ip
\* job, no signal) if the identifier was not in discovered; the reboot path
\* (the _create_soco job, REBOOTED once the handle exists, no device created)
\* if it was and the event's non-zero boot number was above the stored one;
\* otherwise a SEEN signal and nothing else.
C2_ThreeOutcomes ==
    \A i \in Exited :
        LET t == tasks[i]
        IN IF ~t.known
           THEN t.job = "discovered_ip" /\ t.sent = "none"
           ELSE IF t.boot # NoBoot /\ t.boot # 0 /\ t.boot > t.stored
           THEN /\ t.job = "create_soco"
                /\ ~t.created
                /\ t.sent = (IF t.failed THEN "none" ELSE "REBOOTED")
           ELSE t.job = "none" /\ t.sent = "SEEN" /\ ~t.created /\ ~t.failed

\* C2 witness: an event found its identifier known with a lower stored boot
\* number, and ended with the REBOOTED signal.
C2_Witness ==
    \E i \in Exited :
        /\ tasks[i].known
        /\ tasks[i].stored # NoBoot
        /\ tasks[i].boot > tasks[i].stored
        /\ tasks[i].sent = "REBOOTED"

\* C3: a stored boot sequence number is never removed and never decreases.
C3_BootCountMonotonic ==
    [][\A u \in DOMAIN boot_counts :
           u \in DOMAIN boot_counts' /\ boot_counts'[u] >= boot_counts[u]]_vars

\* C3 witness: an event carrying a boot number below the stored one has
\* been handled, and the stored number is still the higher one.
C3_Witness ==
    \E i \in Exited :
        /\ tasks[i].boot # NoBoot
        /\ tasks[i].stored # NoBoot
        /\ tasks[i].boot < tasks[i].stored
        /\ boot_counts[tasks[i].uid] = tasks[i].stored

\* C4: a creation attempt in which an OSError or SoCoException was raised,
\* at any step, leaves no record of the device in discovered.
C4_FailedCreationLeavesNoRecord ==
    \A i \in Exited :
        (tasks[i].job = "discovered_ip" /\ tasks[i].failed)
            => ~(tasks[i].created /\ DeviceUid(tasks[i].ip) \in DOMAIN discovered)

\* C5: a reboot whose new handle could not be created sends no REBOOTED,
\* keeps the record, and leaves the stored boot number as it was when the
\* event was handled.
C5_FailedRebootKeepsBootCount ==
    \A i \in Exited :
        (tasks[i].job = "create_soco" /\ tasks[i].failed)
            => /\ tasks[i].sent # "REBOOTED"
               /\ tasks[i].uid \in DOMAIN discovered
               /\ boot_counts[tasks[i].uid] = tasks[i].stored

\* C6: at most one discovery task is inside the lock-guarded section, so at
\* most one executor job started from a discovery event is in flight.
C6_OneAtATime ==
    Cardinality(InLock) <= 1

\* C6 witness: one task is in its executor job while another waits for the lock.
C6_Witness ==
    \E i, j \in DOMAIN tasks :
        /\ tasks[i].pc \in {"discovered_ip", "reboot_soco"}
        /\ tasks[j].pc = "wait"

\* C7: REBOOTED is sent for an event of an identifier only if the event's
\* boot number is above that of every event for the identifier that finished
\* earlier.
C7_RebootedOnlyOnHigherBoot ==
    \A i \in Exited :
        (tasks[i].uid = Watched /\ tasks[i].sent = "REBOOTED")
            => tasks[i].boot > done_max

\* C8: a boot number is classified as a reboot at most once per identifier;
\* an event that carries a number already classified so gets SEEN.
C8_OneRebootPerBootNumber ==
    \A i \in DOMAIN tasks :
        /\ ~tasks[i].dup
        /\ (/\ tasks[i].pc = "exit"
            /\ tasks[i].uid = Watched
            /\ tasks[i].job # "create_soco"
            /\ tasks[i].boot \in reboot_seen)
               => tasks[i].sent = "SEEN"

\* C8 witness: an event carrying a boot number that was classified as a
\* reboot before has been answered with SEEN.
C8_Witness ==
    \E i \in Exited :
        /\ tasks[i].uid = Watched
        /\ tasks[i].boot \in reboot_seen
        /\ tasks[i].job = "none"
        /\ tasks[i].sent = "SEEN"

\* C9: after an event's creation succeeds, the identifier the event carried
\* is a key of discovered.
C9_StoredUnderEventIdentifier ==
    \A i \in Exited :
        tasks[i].created => tasks[i].uid \in DOMAIN discovered

\* C10: once _stop_manual_heartbeat has handled the stop event,
\* hosts_heartbeat is None and no further _manual_hosts pass is scheduled.
C10_StopEndsPolling ==
    stop_listener = "fired" => (hosts_heartbeat = "None" /\ ~timer_armed)

\* C11: with hosts configured and until the stop event, manual polling is kept
\* alive whatever happened to a host: a pass is running or the next one is
\* scheduled.
C11_PollingRecurs ==
    (setup_done /\ hosts # << >> /\ stop_listener # "fired")
        => (manual.pc # "idle" \/ timer_armed)

\* C12: under fair scheduling of the tasks, the discovery lock is never held
\* forever and the task of every event that was not ignored comes to its end,
\* whether its creation job succeeded or failed.
C12_TasksFinish ==
    /\ discovery_lock ~> ~discovery_lock
    /\ (\E i \in DOMAIN tasks : tasks[i].tracked)
           ~> (\A i \in DOMAIN tasks : ~tasks[i].tracked)

\* A followed task that waited behind another one has ended a job in which
\* the creation failed, and still holds the lock.
C12_Witness ==
    \E i \in DOMAIN tasks :
        /\ tasks[i].tracked
        /\ tasks[i].pc = "exit"
        /\ tasks[i].failed
        /\ ~tasks[i].created
        /\ discovery_lock
        /\ Len(tasks) = MaxTasks

\* C13: the boot count of an event that carries a boot sequence number is
\* stored before its task compares it: no task has met a missing key in
\* boot_counts, also when the device was created by an event without one.
C13_BootCountPresent ==
    \A i \in DOMAIN tasks :
        /\ tasks[i].boot # NoBoot => tasks[i].uid \in DOMAIN boot_counts
        /\ tasks[i].job # "KeyError"

\* The device was created by events that carried no boot sequence number, and
\* a later event with a non-zero one has been compared with the stored count.
C13_Witness ==
    /\ Watched \in DOMAIN discovered
    /\ done_max = NoBoot
    /\ DOMAIN boot_counts = {Watched}
    /\ \E i \in DOMAIN tasks :
          /\ tasks[i].uid = Watched
          /\ tasks[i].known
          /\ tasks[i].boot > 0
          /\ tasks[i].pc = "exit"
          /\ tasks[i].stored = tasks[i].boot

\* C14: a discovery event whose model is in DISCOVERY_IGNORED_MODELS changes
\* none of boot_counts, discovery_known and discovered, creates no task and
\* sends no signal (signals are sent by tasks only).
C14_IgnoredModelNoEffect ==
    [][(last_event' = "ignored" /\ last_event # "ignored")
          => /\ boot_counts' = boot_counts
             /\ discovery_known' = discovery_known
             /\ discovered' = discovered
             /\ tasks' = tasks
             /\ discovery_lock' = discovery_lock]_vars

\* An event of an ignored model has arrived while a device is known and a
\* task is in the queue.
C14_Witness ==
    /\ last_event = "ignored"
    /\ discovered # << >>
    /\ DOMAIN boot_counts # {}
    /\ tasks # << >>

\* C15: in a pass, every configured host whose resolved address belongs to a
\* speaker in discovered gets SEEN for that speaker and no creation; every
\* other host gets exactly one creation attempt, after which the pass moves on.  So
\* one pass never stores two speakers for one address, and no two records
\* share an address.
C15_SeenOrOneCreation ==
    /\ [][(manual.pc = "host" /\ manual.idx <= Len(hosts) /\ manual' # manual)
           => LET owners == {u \in DOMAIN discovered :
                                discovered[u].ip = manual'.addr}
              IN /\ discovered' = discovered
                 /\ manual'.made = manual.made
                 /\ IF owners # {}
                    THEN /\ manual'.pc = "host"
                         /\ manual'.idx = manual.idx + 1
                         /\ manual'.sent \in owners
                    ELSE /\ manual'.pc = "create_soco"
                         /\ manual'.idx = manual.idx
                         /\ manual'.ip = manual'.addr
                         /\ manual'.sent = "none"]_vars
    /\ [][(manual.pc = "create_soco" /\ manual' # manual)
           => /\ manual'.pc = "host"
              /\ manual'.idx = manual.idx + 1
              /\ manual'.sent = "none"
              /\ Len(manual'.made) <= Len(manual.made) + 1]_vars
    /\ [](\A i, j \in DOMAIN manual.made :
             i # j => manual.made[i] # manual.made[j])
    /\ [](\A u, v \in DOMAIN discovered :
             discovered[u].ip = discovered[v].ip => u = v)

====
